---- MODULE Spec2Model ----
(***************************************************************************)
(* Model of 01_ingest.py: the per-ticker fetch/merge pipeline and the      *)
(* batch loop of main().  pandas values are modelled by what the library   *)
(* calls used in the source do to them.                                    *)
(***************************************************************************)
EXTENDS Integers, Sequences, FiniteSets, TLC

(***************************************************************************)
(* Bounds.                                                                 *)
(***************************************************************************)
MaxTickers == 2

(***************************************************************************)
(* Values.  Every cell value is a tagged tuple; None is Python's None,     *)
(* NaN the float not-a-number pandas uses for a missing number.            *)
(***************************************************************************)
None == <<"None">>
NaN == <<"NaN">>
Num(n) == <<"num", n>>
Str(s) == <<"str", s>>
Date(d) == <<"date", d>>

IsNum(v) == v[1] = "num"

\* Python truthiness of a value returned by dict.get (used by `or`).
Truthy(v) == ~(v = None \/ v = Num(0) \/ v = Str(""))

\* Python `a or b`.
PyOr(a, b) == IF Truthy(a) THEN a ELSE b

\* Float addition: NaN propagates.
Add(a, b) == IF IsNum(a) /\ IsNum(b) THEN Num(a[2] + b[2]) ELSE NaN

(***************************************************************************)
(* dict.get and Series.get: the value under the key, else the default.     *)
(***************************************************************************)
DictGet(d, key, default) == IF key \in DOMAIN d THEN d[key] ELSE default

SeriesGet(col, key, default) == IF key \in DOMAIN col THEN col[key] ELSE default

(***************************************************************************)
(* A flat DataFrame: ordered column labels and rows of cell values.        *)
(* pd.DataFrame() has no columns and no rows.                              *)
(***************************************************************************)
EmptyDataFrame == [columns |-> <<>>, data |-> <<>>]

\* DataFrame.empty: any axis of length 0.
IsEmpty(df) == Len(df.columns) = 0 \/ Len(df.data) = 0

\* pd.DataFrame([fields]) for a dict given as its ordered <<key, value>> items.
DataFrameFromDict(fields) ==
    [columns |-> [k \in 1..Len(fields) |-> fields[k][1]],
     data |-> << [k \in 1..Len(fields) |-> fields[k][2]] >>]

\* Position of the first column labelled c (0 when there is none).
ColPos(cols, c) ==
    IF \E k \in 1..Len(cols) : cols[k] = c
    THEN CHOOSE k \in 1..Len(cols) : cols[k] = c /\ \A j \in 1..(k-1) : cols[j] # c
    ELSE 0

HasCol(cols, c) == ColPos(cols, c) # 0

\* Keep the columns at the listed positions.
TakeCols(df, keep) ==
    [columns |-> [k \in 1..Len(keep) |-> df.columns[keep[k]]],
     data |-> [r \in 1..Len(df.data) |-> [k \in 1..Len(keep) |-> df.data[r][keep[k]]]]]

Positions(n) == [k \in 1..n |-> k]

\* df.loc[:, ~df.columns.duplicated()]: keep the first occurrence of each label
\* of df itself.
DropDuplicatedColumns(df) ==
    TakeCols(df, SelectSeq(Positions(Len(df.columns)),
                           LAMBDA k : \A j \in 1..(k-1) : df.columns[j] # df.columns[k]))

NaNs(n) == [k \in 1..n |-> NaN]

\* Merge, were the frames put side by side (the key column of both kept).
Merge_side_by_side(left, right, key) ==
    [columns |-> left.columns \o right.columns,
     data |-> [r \in 1..Len(left.data) |->
                 left.data[r] \o (IF r <= Len(right.data) THEN right.data[r]
                                  ELSE [k \in 1..Len(right.columns) |-> NaN])]]

\* left.merge(right, on=key, how="outer"): the key column once, a non-key label
\* carried by both sides is renamed with the suffixes _x and _y, rows with equal
\* keys are combined and unmatched rows are padded with NaN.
Merge(left, right, key) ==
    LET lk == ColPos(left.columns, key)
        rk == ColPos(right.columns, key)
        rkeep == SelectSeq(Positions(Len(right.columns)), LAMBDA k : k # rk)
        lcols == [k \in 1..Len(left.columns) |->
                    IF k # lk /\ \E j \in 1..Len(rkeep) : right.columns[rkeep[j]] = left.columns[k]
                    THEN left.columns[k] \o "_x" ELSE left.columns[k]]
        rcols == [j \in 1..Len(rkeep) |->
                    IF \E k \in 1..Len(left.columns) : k # lk /\ left.columns[k] = right.columns[rkeep[j]]
                    THEN right.columns[rkeep[j]] \o "_y" ELSE right.columns[rkeep[j]]]
        rest(r) == [j \in 1..Len(rkeep) |-> r[rkeep[j]]]
        nl == Len(left.data)
        nr == Len(right.data)
        pairs == SelectSeq([p \in 1..(nl * nr) |-> <<((p-1) \div nr) + 1, ((p-1) % nr) + 1>>],
                           LAMBDA p : left.data[p[1]][lk] = right.data[p[2]][rk])
        both == [p \in 1..Len(pairs) |-> left.data[pairs[p][1]] \o rest(right.data[pairs[p][2]])]
        lonly == SelectSeq(left.data, LAMBDA l : \A r \in 1..nr : right.data[r][rk] # l[lk])
        ronly == SelectSeq(right.data, LAMBDA r : \A l \in 1..nl : left.data[l][lk] # r[rk])
        lpad == [p \in 1..Len(lonly) |-> lonly[p] \o NaNs(Len(rkeep))]
        rpad == [p \in 1..Len(ronly) |->
                    [k \in 1..Len(left.columns) |-> IF k = lk THEN ronly[p][rk] ELSE NaN]
                    \o rest(ronly[p])]
    IN [columns |-> lcols \o rcols, data |-> both \o lpad \o rpad]

\* Labels of b that a does not carry, in b's order.
NewCols(a, b) == SelectSeq(b, LAMBDA c : ~HasCol(a, c))

RECURSIVE UnionCols(_)
UnionCols(dfs) ==
    IF Len(dfs) = 0 THEN <<>>
    ELSE LET front == UnionCols(SubSeq(dfs, 1, Len(dfs) - 1))
         IN front \o NewCols(front, dfs[Len(dfs)].columns)

\* The rows of df laid out on the labels cols, NaN where df has no such label.
Reindex(df, cols) ==
    [r \in 1..Len(df.data) |->
        [k \in 1..Len(cols) |->
            IF HasCol(df.columns, cols[k]) THEN df.data[r][ColPos(df.columns, cols[k])] ELSE NaN]]

RECURSIVE ConcatRows(_, _)
ConcatRows(dfs, cols) ==
    IF Len(dfs) = 0 THEN <<>>
    ELSE ConcatRows(SubSeq(dfs, 1, Len(dfs) - 1), cols) \o Reindex(dfs[Len(dfs)], cols)

\* pd.concat(dfs, ignore_index=True): rows in list order over the union of labels.
Concat(dfs) == [columns |-> UnionCols(dfs), data |-> ConcatRows(dfs, UnionCols(dfs))]

(***************************************************************************)
(* A provider statement (tk.financials, tk.balance_sheet, tk.cashflow):    *)
(* index = line items, columns = period dates, cell[item][j] the value of  *)
(* the item in the j-th period.  NoneDF is Python's None.                  *)
(***************************************************************************)
NoneDF == [none |-> TRUE]

IsNoneDF(df) == DOMAIN df = {"none"}

StmtEmpty(df) == df.index = {} \/ Len(df.columns) = 0

\* df[label]: the Series of the column carrying that label.
Column(df, label) == [k \in df.index |-> df.cell[k][ColPos(df.columns, label)]]

(***************************************************************************)
(* The four extractors.  Each takes the ticker and what the provider       *)
(* returned for it (tk.info, or a statement) and returns the fragment.     *)
(***************************************************************************)
\* fetch_market_fields, were a quote without a name returned as an empty frame.
fetch_market_fields_empty_without_name(ticker, info) ==
    IF DictGet(info, "shortName", None) = None THEN EmptyDataFrame
    ELSE DataFrameFromDict(<<
        <<"ticker", Str(ticker)>>,
        <<"shortName", DictGet(info, "shortName", None)>>,
        <<"sector", DictGet(info, "sector", None)>>,
        <<"industry", DictGet(info, "industry", None)>>,
        <<"currentPrice", PyOr(DictGet(info, "currentPrice", None),
                               DictGet(info, "regularMarketPrice", None))>>,
        <<"sharesOutstanding", DictGet(info, "sharesOutstanding", None)>>,
        <<"marketCap", DictGet(info, "marketCap", None)>>,
        <<"trailingEps", DictGet(info, "trailingEps", None)>>,
        <<"forwardEps", DictGet(info, "forwardEps", None)>>,
        <<"dividendRate", DictGet(info, "dividendRate", None)>>,
        <<"dividendYield", DictGet(info, "dividendYield", None)>>,
        <<"priceToBook", DictGet(info, "priceToBook", None)>> >>)

fetch_market_fields(ticker, info) ==
    DataFrameFromDict(<<
        <<"ticker", Str(ticker)>>,
        <<"shortName", DictGet(info, "shortName", None)>>,
        <<"sector", DictGet(info, "sector", None)>>,
        <<"industry", DictGet(info, "industry", None)>>,
        <<"currentPrice", PyOr(DictGet(info, "currentPrice", None),
                               DictGet(info, "regularMarketPrice", None))>>,
        <<"sharesOutstanding", DictGet(info, "sharesOutstanding", None)>>,
        <<"marketCap", DictGet(info, "marketCap", None)>>,
        <<"trailingEps", DictGet(info, "trailingEps", None)>>,
        <<"forwardEps", DictGet(info, "forwardEps", None)>>,
        <<"dividendRate", DictGet(info, "dividendRate", None)>>,
        <<"dividendYield", DictGet(info, "dividendYield", None)>>,
        <<"priceToBook", DictGet(info, "priceToBook", None)>> >>)

\* fetch_income_statement, were an absent statement returned as an all-null row.
fetch_income_statement_null_row(ticker, df) ==
    IF IsNoneDF(df) \/ StmtEmpty(df)
    THEN DataFrameFromDict(<< <<"ticker", Str(ticker)>>, <<"is_date", None>>, <<"revenue", None>>,
                              <<"cogs", None>>, <<"gross_profit", None>>,
                              <<"operating_income", None>>, <<"interest_expense", None>>,
                              <<"net_income", None>> >>)
    ELSE LET col == Column(df, df.columns[1])
         IN DataFrameFromDict(<<
                <<"ticker", Str(ticker)>>,
                <<"is_date", df.columns[1]>>,
                <<"revenue", SeriesGet(col, "Total Revenue", None)>>,
                <<"cogs", SeriesGet(col, "Cost Of Revenue", None)>>,
                <<"gross_profit", SeriesGet(col, "Gross Profit", None)>>,
                <<"operating_income", SeriesGet(col, "Operating Income", None)>>,
                <<"interest_expense", SeriesGet(col, "Interest Expense", None)>>,
                <<"net_income", SeriesGet(col, "Net Income", None)>> >>)

fetch_income_statement(ticker, df) ==
    IF IsNoneDF(df) \/ StmtEmpty(df) THEN EmptyDataFrame
    ELSE LET latest_date == df.columns[1]
             col == Column(df, latest_date)
         IN DataFrameFromDict(<<
                <<"ticker", Str(ticker)>>,
                <<"is_date", latest_date>>,
                <<"revenue", SeriesGet(col, "Total Revenue", None)>>,
                <<"cogs", SeriesGet(col, "Cost Of Revenue", None)>>,
                <<"gross_profit", SeriesGet(col, "Gross Profit", None)>>,
                <<"operating_income", SeriesGet(col, "Operating Income", None)>>,
                <<"interest_expense", SeriesGet(col, "Interest Expense", None)>>,
                <<"net_income", SeriesGet(col, "Net Income", None)>> >>)

\* TotalDebt, were it null when neither debt item is on the statement.
TotalDebt_null_when_absent(col) ==
    IF "Short Long Term Debt" \notin DOMAIN col /\ "Long Term Debt" \notin DOMAIN col
    THEN None
    ELSE Add(SeriesGet(col, "Short Long Term Debt", Num(0)), SeriesGet(col, "Long Term Debt", Num(0)))

\* total_debt = 0, then += each of the two debt items that is in col.index.
TotalDebt(col) ==
    LET t0 == Num(0)
        t1 == IF "Short Long Term Debt" \in DOMAIN col
              THEN Add(t0, SeriesGet(col, "Short Long Term Debt", Num(0))) ELSE t0
        t2 == IF "Long Term Debt" \in DOMAIN col
              THEN Add(t1, SeriesGet(col, "Long Term Debt", Num(0))) ELSE t1
    IN t2

fetch_balance_sheet(ticker, df) ==
    IF IsNoneDF(df) \/ StmtEmpty(df) THEN EmptyDataFrame
    ELSE LET latest_date == df.columns[1]
             col == Column(df, latest_date)
         IN DataFrameFromDict(<<
                <<"ticker", Str(ticker)>>,
                <<"bs_date", latest_date>>,
                <<"total_assets", SeriesGet(col, "Total Assets", None)>>,
                <<"total_liab", SeriesGet(col, "Total Liab", None)>>,
                <<"total_equity", SeriesGet(col, "Total Stockholder Equity", None)>>,
                <<"current_assets", SeriesGet(col, "Total Current Assets", None)>>,
                <<"current_liab", SeriesGet(col, "Total Current Liabilities", None)>>,
                <<"short_long_term_debt", SeriesGet(col, "Short Long Term Debt", None)>>,
                <<"long_term_debt", SeriesGet(col, "Long Term Debt", None)>>,
                <<"total_debt", TotalDebt(col)>> >>)

\* FreeCashFlow, were a missing operand taken as zero.
FreeCashFlow_zero_filled(op_cf, capex) ==
    Add(IF op_cf = None THEN Num(0) ELSE op_cf, IF capex = None THEN Num(0) ELSE capex)

\* free_cash_flow = op_cf + capex when neither is None, else None.
FreeCashFlow(op_cf, capex) ==
    IF op_cf # None /\ capex # None THEN Add(op_cf, capex) ELSE None

fetch_cashflow(ticker, df) ==
    IF IsNoneDF(df) \/ StmtEmpty(df) THEN EmptyDataFrame
    ELSE LET latest_date == df.columns[1]
             col == Column(df, latest_date)
             op_cf == SeriesGet(col, "Total Cash From Operating Activities", None)
             capex == SeriesGet(col, "Capital Expenditures", None)
         IN DataFrameFromDict(<<
                <<"ticker", Str(ticker)>>,
                <<"cf_date", latest_date>>,
                <<"operating_cash_flow", op_cf>>,
                <<"capex", capex>>,
                <<"free_cash_flow", FreeCashFlow(op_cf, capex)>> >>)

(***************************************************************************)
(* fetch_all_for_ticker, from the four fragments on: drop the empty ones,  *)
(* then fold the rest with an outer merge on ticker.                       *)
(***************************************************************************)
RECURSIVE MergeAll(_)
MergeAll(dfs) ==
    IF Len(dfs) = 1 THEN dfs[1]
    ELSE Merge(MergeAll(SubSeq(dfs, 1, Len(dfs) - 1)),
               DropDuplicatedColumns(dfs[Len(dfs)]), "ticker")

MergeFragments(fragments) ==
    LET dfs == SelectSeq(fragments, LAMBDA df : ~IsEmpty(df))
    IN IF Len(dfs) = 0 THEN EmptyDataFrame ELSE MergeAll(dfs)

(***************************************************************************)
(* Configuration (module level).  Delays are in milliseconds.              *)
(***************************************************************************)
SLEEP_BETWEEN_REQUESTS == 500

\* The literal passed to time.sleep in main().
SleepArgument == 500

(***************************************************************************)
(* What the provider can answer.  A response is <<"ok", payload>> or       *)
(* <<"raise", message>>.                                                   *)
(***************************************************************************)
Ok(x) == <<"ok", x>>
Raised(e) == <<"raise", e>>
IsOk(r) == r[1] = "ok"

Tickers == {"AAA", "BBB", "CCC"}

\* Duplicate-free ticker lists of length n.
ListsOfLen(n) == {s \in [1..n -> Tickers] : \A a, b \in 1..n : a # b => s[a] # s[b]}

TickerLists == UNION {ListsOfLen(n) : n \in 0..MaxTickers}

InfoEmpty == [k \in {} |-> None]
InfoFull == [shortName |-> Str("Acme"), sector |-> Str("Tech"), currentPrice |-> Num(10),
             marketCap |-> Num(1000)]
InfoFallback == [currentPrice |-> Num(0), regularMarketPrice |-> Num(9)]

Periods == <<Date(2023), Date(2022)>>

\* A line item that the statement does not carry.
Missing == <<"missing">>

\* A two-period statement from item :> first-period value; items given as
\* Missing are left out of the index, the older period holds 1 everywhere.
Statement(items) ==
    LET idx == {k \in DOMAIN items : items[k] # Missing}
    IN [index |-> idx, columns |-> Periods, cell |-> [k \in idx |-> <<items[k], Num(1)>>]]

NoPeriods == [index |-> {"Total Assets"}, columns |-> <<>>, cell |-> [k \in {"Total Assets"} |-> <<>>]]
NoItems == [index |-> {}, columns |-> Periods, cell |-> [k \in {} |-> <<>>]]

IncomeStatement(rev, ni) == Statement([x \in {"Total Revenue", "Net Income", "Gross Profit"} |->
    IF x = "Total Revenue" THEN rev ELSE IF x = "Net Income" THEN ni ELSE Num(40)])

BalanceSheet(sltd, ltd) == Statement([x \in {"Total Assets", "Short Long Term Debt", "Long Term Debt"} |->
    IF x = "Short Long Term Debt" THEN sltd ELSE IF x = "Long Term Debt" THEN ltd ELSE Num(90)])

CashFlow(op, capex) == Statement([x \in {"Net Income", "Total Cash From Operating Activities",
                                         "Capital Expenditures"} |->
    IF x = "Total Cash From Operating Activities" THEN op
    ELSE IF x = "Capital Expenditures" THEN capex ELSE Num(7)])

Errors == {"timeout"}
Raises == {Raised(e) : e \in Errors}

\* Responses of a batch run.
MarketResponses == {Ok(InfoFallback)} \cup Raises
IncomeResponses == {Ok(NoneDF), Ok(IncomeStatement(Num(100), Missing))} \cup Raises
BalanceResponses == {Ok(NoItems), Ok(BalanceSheet(Num(5), Missing))} \cup Raises
CashflowResponses == {Ok(NoneDF), Ok(CashFlow(Num(8), Num(0 - 3)))} \cup Raises

\* Responses of a one-ticker run: every shape of statement.
Absent == {Ok(NoneDF), Ok(NoItems), Ok(NoPeriods)}
MarketResponsesAll == {Ok(InfoFull), Ok(InfoEmpty), Ok(InfoFallback)} \cup Raises
IncomeResponsesAll == Absent \cup Raises
    \cup {Ok(IncomeStatement(r, n)) : r \in {Missing, Num(100)}, n \in {Missing, NaN}}
BalanceResponsesAll == Absent \cup Raises
    \cup {Ok(BalanceSheet(a, b)) : a \in {Missing, NaN, Num(5)}, b \in {Missing, NaN, Num(0), Num(3)}}
CashflowResponsesAll == Absent \cup Raises
    \cup {Ok(CashFlow(a, b)) : a \in {Missing, NaN, Num(8)}, b \in {Missing, NaN, Num(0), Num(0 - 3)}}

(***************************************************************************)
(* State of a run of main().                                               *)
(***************************************************************************)
VARIABLES
    TICKER_LIST,  \* the universe, fixed at import
    i,            \* number of tickers the for loop has taken
    pc,           \* position in main()
    frags,        \* fetch_all_for_ticker's locals mkt, inc, bs, cf fetched so far
    exc,          \* message of the exception in flight, "" when none
    rows,         \* main()'s accumulation buffer
    log,          \* messages written by logging.error
    sleeps,       \* arguments of the time.sleep calls made
    csv,          \* frames handed to to_csv(OUTPUT_PATH)
    resp,         \* payloads the provider returned for the current ticker
    requests,     \* extractor calls issued for the current ticker
    outcome       \* per ticker: "Pending", "Succeeded", "Failed" or "NoRecord"

vars == <<TICKER_LIST, i, pc, frags, exc, rows, log, sleeps, csv, resp, requests, outcome>>

N == Len(TICKER_LIST)
t == TICKER_LIST[i]

InitRun ==
    /\ i = 0
    /\ pc = "loop"
    /\ frags = <<>>
    /\ exc = ""
    /\ rows = <<>>
    /\ log = <<>>
    /\ sleeps = <<>>
    /\ csv = <<>>
    /\ resp = <<>>
    /\ requests = 0
    /\ outcome = [k \in 1..N |-> "Pending"]

Init == TICKER_LIST \in TickerLists /\ InitRun

InitOne == TICKER_LIST \in ListsOfLen(1) /\ InitRun

(***************************************************************************)
(* Steps of main().                                                        *)
(***************************************************************************)
\* for t in TICKER_LIST: take the next ticker, or leave the loop.
LoopHead ==
    /\ pc = "loop"
    /\ IF i < N
       THEN /\ i' = i + 1
            /\ pc' = "market"
       ELSE /\ i' = i
            /\ pc' = "finish"
    /\ resp' = <<>>
    /\ requests' = 0
    /\ UNCHANGED <<TICKER_LIST, frags, exc, rows, log, sleeps, csv, outcome>>

\* Raise, were the fragments fetched so far merged and kept on an error.
Raise_keeping_fragments(e) ==
    /\ pc' = "except"
    /\ exc' = e
    /\ frags' = <<>>
    /\ rows' = IF frags # <<>> THEN Append(rows, MergeFragments(frags)) ELSE rows
    /\ UNCHANGED resp

\* An extractor raises: fetch_all_for_ticker's frame is unwound and the
\* exception reaches the except clause of main().
Raise(e) ==
    /\ pc' = "except"
    /\ exc' = e
    /\ frags' = <<>>
    /\ UNCHANGED <<rows, resp>>

\* An extractor returns: its fragment is bound to the next local.
Return(payload, df, next) ==
    /\ pc' = next
    /\ frags' = Append(frags, df)
    /\ resp' = Append(resp, payload)
    /\ UNCHANGED <<exc, rows>>

\* One extractor call of fetch_all_for_ticker: the provider answers r.
Call(r, df, next) ==
    /\ requests' = requests + 1
    /\ IF IsOk(r) THEN Return(r[2], df, next) ELSE Raise(r[2])
    /\ UNCHANGED <<TICKER_LIST, i, log, sleeps, csv, outcome>>

FetchMarket(R) ==
    /\ pc = "market"
    /\ \E r \in R : Call(r, fetch_market_fields(t, r[2]), "income")

FetchIncome(R) ==
    /\ pc = "income"
    /\ \E r \in R : Call(r, fetch_income_statement(t, r[2]), "balance")

FetchBalanceSheet(R) ==
    /\ pc = "balance"
    /\ \E r \in R : Call(r, fetch_balance_sheet(t, r[2]), "cashflow")

FetchCashflow(R) ==
    /\ pc = "cashflow"
    /\ \E r \in R : Call(r, fetch_cashflow(t, r[2]), "merge")

\* MergeAppend, were the record put at the front of the buffer.
MergeAppend_at_front ==
    /\ pc = "merge"
    /\ rows' = <<MergeFragments(frags)>> \o rows
    /\ outcome' = [outcome EXCEPT ![i] = "Succeeded"]
    /\ frags' = <<>>
    /\ pc' = "sleep"
    /\ UNCHANGED <<TICKER_LIST, i, exc, log, sleeps, csv, resp, requests>>

\* The merge of fetch_all_for_ticker and `if not df.empty: rows.append(df)`.
MergeAppend ==
    /\ pc = "merge"
    /\ LET df == MergeFragments(frags)
       IN IF ~IsEmpty(df)
          THEN /\ rows' = Append(rows, df)
               /\ outcome' = [outcome EXCEPT ![i] = "Succeeded"]
          ELSE /\ rows' = rows
               /\ outcome' = [outcome EXCEPT ![i] = "NoRecord"]
    /\ frags' = <<>>
    /\ pc' = "sleep"
    /\ UNCHANGED <<TICKER_LIST, i, exc, log, sleeps, csv, resp, requests>>

\* Except, were the error to end the loop.
Except_breaking_the_loop ==
    /\ pc = "except"
    /\ log' = Append(log, "Failed " \o t \o ": " \o exc)
    /\ outcome' = [outcome EXCEPT ![i] = "Failed"]
    /\ exc' = ""
    /\ pc' = "finish"
    /\ UNCHANGED <<TICKER_LIST, i, frags, rows, sleeps, csv, resp, requests>>

\* Except, were the handler to `continue` past the sleep.
Except_skipping_the_sleep ==
    /\ pc = "except"
    /\ log' = Append(log, "Failed " \o t \o ": " \o exc)
    /\ outcome' = [outcome EXCEPT ![i] = "Failed"]
    /\ exc' = ""
    /\ pc' = "loop"
    /\ UNCHANGED <<TICKER_LIST, i, frags, rows, sleeps, csv, resp, requests>>

\* except Exception as e: logging.error(f"Failed {t}: {e}")
Except ==
    /\ pc = "except"
    /\ log' = Append(log, "Failed " \o t \o ": " \o exc)
    /\ outcome' = [outcome EXCEPT ![i] = "Failed"]
    /\ exc' = ""
    /\ pc' = "sleep"
    /\ UNCHANGED <<TICKER_LIST, i, frags, rows, sleeps, csv, resp, requests>>

\* time.sleep(0.5), the last statement of the loop body.
Sleep ==
    /\ pc = "sleep"
    /\ sleeps' = Append(sleeps, SleepArgument)
    /\ pc' = "loop"
    /\ UNCHANGED <<TICKER_LIST, i, frags, exc, rows, log, csv, resp, requests, outcome>>

\* Finish, were the `if rows:` test left out.
Finish_writing_always ==
    /\ pc = "finish"
    /\ csv' = Append(csv, Concat(rows))
    /\ pc' = "done"
    /\ UNCHANGED <<TICKER_LIST, i, frags, exc, rows, log, sleeps, resp, requests, outcome>>

\* if rows: result = pd.concat(rows, ignore_index=True); result.to_csv(...)
Finish ==
    /\ pc = "finish"
    /\ IF rows # <<>>
       THEN csv' = Append(csv, Concat(rows))
       ELSE csv' = csv
    /\ pc' = "done"
    /\ UNCHANGED <<TICKER_LIST, i, frags, exc, rows, log, sleeps, resp, requests, outcome>>

Next ==
    \/ LoopHead
    \/ FetchMarket(MarketResponses)
    \/ FetchIncome(IncomeResponses)
    \/ FetchBalanceSheet(BalanceResponses)
    \/ FetchCashflow(CashflowResponses)
    \/ MergeAppend
    \/ Except
    \/ Sleep
    \/ Finish

Spec == Init /\ [][Next]_vars

\* A run over one ticker, the provider answering with any shape of statement.
NextOne ==
    \/ LoopHead
    \/ FetchMarket(MarketResponsesAll)
    \/ FetchIncome(IncomeResponsesAll)
    \/ FetchBalanceSheet(BalanceResponsesAll)
    \/ FetchCashflow(CashflowResponsesAll)
    \/ MergeAppend
    \/ Except
    \/ Sleep
    \/ Finish

SpecOne == InitOne /\ [][NextOne]_vars

(***************************************************************************)
(* Vocabulary of the properties.                                           *)
(***************************************************************************)
Range(f) == {f[k] : k \in DOMAIN f}

\* Null in the pandas sense (isna): None or NaN.
IsNull(v) == v = None \/ v = NaN

\* Value of a field of a one-row frame.
Field(df, name) == df.data[1][ColPos(df.columns, name)]

\* How many columns of df carry the label c.
Count(df, c) == Cardinality({k \in 1..Len(df.columns) : df.columns[k] = c})

MarketFields == {"ticker", "shortName", "sector", "industry", "currentPrice", "sharesOutstanding",
                 "marketCap", "trailingEps", "forwardEps", "dividendRate", "dividendYield",
                 "priceToBook"}
IncomeFields == {"ticker", "is_date", "revenue", "cogs", "gross_profit", "operating_income",
                 "interest_expense", "net_income"}
BalanceFields == {"ticker", "bs_date", "total_assets", "total_liab", "total_equity",
                  "current_assets", "current_liab", "short_long_term_debt", "long_term_debt",
                  "total_debt"}
CashflowFields == {"ticker", "cf_date", "operating_cash_flow", "capex", "free_cash_flow"}

\* Field names of the k-th fragment kind in canonical order.
Schema(k) == IF k = 1 THEN MarketFields ELSE IF k = 2 THEN IncomeFields
             ELSE IF k = 3 THEN BalanceFields ELSE CashflowFields

\* The provider has no statement: None, or a frame with an empty axis.
NoStatement(df) == IsNoneDF(df) \/ df.index = {} \/ df.columns = <<>>

\* The line item is missing from the statement or null in its first period.
ItemNull(df, item) == item \notin df.index \/ IsNull(df.cell[item][1])

Failed == {k \in 1..N : outcome[k] = "Failed"}
Succeeded == {k \in 1..N : outcome[k] = "Succeeded"}
Processed == {k \in 1..N : outcome[k] # "Pending"}

\* All four extractor calls of the current ticker returned and it was merged.
Merged == pc = "sleep" /\ Len(resp) = 4

\* The record of the current ticker, once merged.
Record == rows[Len(rows)]

Fetching == pc \in {"market", "income", "balance", "cashflow"}

(***************************************************************************)
(* C1.  Failure isolation: when exactly one ticker of a completed run      *)
(* raised, every ticker was processed, the buffer and the written snapshot *)
(* hold N-1 rows, and the log holds exactly one entry, the one naming the  *)
(* failed ticker.                                                          *)
(***************************************************************************)
C1_FailureIsolation ==
    (pc = "done" /\ Cardinality(Failed) = 1) =>
        /\ Processed = 1..N
        /\ Len(rows) = N - 1
        /\ (N > 1 => Len(csv) = 1 /\ Len(csv[1].data) = N - 1)
        /\ Len(log) = 1
        /\ \E k \in Failed : \E e \in Errors : log[1] = "Failed " \o TICKER_LIST[k] \o ": " \o e

C1_Witness ==
    /\ pc = "done"
    /\ N = 2
    /\ outcome = <<"Failed", "Succeeded">>
    /\ Len(rows) = 1
    /\ log = <<"Failed " \o TICKER_LIST[1] \o ": timeout">>

(***************************************************************************)
(* C2.  No partial data survives a failure: no step of the extraction or   *)
(* of the handling of its error changes the buffer, the ticker whose       *)
(* extractor raised ends Failed, and no row of the buffer belongs to a     *)
(* Failed ticker.                                                          *)
(***************************************************************************)
C2_NoPartialData ==
    [][/\ (Fetching \/ pc = "except") => rows' = rows
       /\ pc = "except" => outcome'[i] = "Failed"
       /\ \A k \in 1..N : outcome'[k] = "Failed" =>
             \A r \in 1..Len(rows') : Str(TICKER_LIST[k]) \notin Range(rows'[r].data[1])]_vars

\* The second ticker failed on its cash-flow call after three present fragments.
C2_Witness ==
    /\ pc = "sleep"
    /\ i = 2
    /\ outcome = <<"Succeeded", "Failed">>
    /\ requests = 4
    /\ Len(resp) = 3
    /\ \A k \in 2..3 : ~NoStatement(resp[k])
    /\ Len(rows) = 1

(***************************************************************************)
(* C3.  The snapshot writer is invoked at the end of the run if and only   *)
(* if the buffer is non-empty, and never before; what it is handed has a   *)
(* row per buffered record.                                                *)
(***************************************************************************)
C3_WriterIffRows ==
    /\ pc # "done" => csv = <<>>
    /\ pc = "done" => /\ (csv # <<>>) <=> (rows # <<>>)
                      /\ Len(csv) <= 1
                      /\ csv # <<>> => Len(csv[1].data) = Len(rows) /\ Len(csv[1].columns) > 0

\* Every ticker of a non-empty universe failed: nothing is written.
C3_Witness ==
    /\ pc = "done"
    /\ N = 2
    /\ Failed = 1..N
    /\ csv = <<>>

C5_FreeCashFlow ==
    (Len(frags) = 4 /\ ~NoStatement(resp[4])) =>
        LET df == resp[4]
            op == "Total Cash From Operating Activities"
            cx == "Capital Expenditures"
            fcf == Field(frags[4], "free_cash_flow")
        IN /\ ~IsNull(fcf) <=> (~ItemNull(df, op) /\ ~ItemNull(df, cx))
           /\ ~IsNull(fcf) => fcf = Num(df.cell[op][1][2] + df.cell[cx][1][2])
           /\ IsNull(Field(frags[4], "operating_cash_flow")) <=> ItemNull(df, op)
           /\ IsNull(Field(frags[4], "capex")) <=> ItemNull(df, cx)

\* Operating cash flow 8 with capital expenditure missing: null, not 8.
C5_Witness ==
    /\ Len(frags) = 4
    /\ resp[4] = CashFlow(Num(8), Missing)
    /\ Field(frags[4], "operating_cash_flow") = Num(8)
    /\ Field(frags[4], "free_cash_flow") = None

(***************************************************************************)
(* C6.  total_debt of a present balance sheet is the sum of those of the   *)
(* two debt items that are on the statement: 0 when neither is, the one    *)
(* item when only one is, both added otherwise; the fields of the items    *)
(* themselves are null when the item is absent.                            *)
(***************************************************************************)
C6_TotalDebt ==
    (Len(frags) >= 3 /\ ~NoStatement(resp[3])) =>
        LET df == resp[3]
            s == "Short Long Term Debt"
            l == "Long Term Debt"
            td == Field(frags[3], "total_debt")
        IN /\ (s \notin df.index /\ l \notin df.index) => td = Num(0)
           /\ (s \in df.index /\ l \notin df.index) => td = df.cell[s][1]
           /\ (s \notin df.index /\ l \in df.index) => td = df.cell[l][1]
           /\ (s \in df.index /\ l \in df.index) =>
                 td = IF IsNum(df.cell[s][1]) /\ IsNum(df.cell[l][1])
                      THEN Num(df.cell[s][1][2] + df.cell[l][1][2]) ELSE NaN
           /\ s \notin df.index => Field(frags[3], "short_long_term_debt") = None
           /\ l \notin df.index => Field(frags[3], "long_term_debt") = None

\* Neither debt item on the statement: the numeric 0.
C6_Witness ==
    /\ Len(frags) >= 3
    /\ resp[3] = BalanceSheet(Missing, Missing)
    /\ Field(frags[3], "total_debt") = Num(0)
    /\ Field(frags[3], "long_term_debt") = None

(***************************************************************************)
(* C7.  Fragment emptiness: an absent or structurally empty statement      *)
(* yields the empty fragment, the ticker is neither Failed nor logged, and *)
(* the merged record carries no field of that fragment but every field of  *)
(* the present ones.                                                       *)
(***************************************************************************)
C7_FragmentEmptiness ==
    /\ \A k \in 2..Len(frags) : NoStatement(resp[k]) => frags[k] = EmptyDataFrame
    /\ Merged =>
          /\ outcome[i] = "Succeeded"
          /\ log = <<>>
          /\ \A k \in 2..4 :
                IF NoStatement(resp[k])
                THEN Range(Record.columns) \cap (Schema(k) \ {"ticker"}) = {}
                ELSE Schema(k) \subseteq Range(Record.columns)
          /\ MarketFields \subseteq Range(Record.columns)

\* The scenario "AAA": market present, no income statement.
C7_Witness ==
    /\ Merged
    /\ resp[2] = NoneDF
    /\ ~NoStatement(resp[3])
    /\ resp[4] = NoPeriods
    /\ Range(Record.columns) = MarketFields \cup BalanceFields

(***************************************************************************)
(* C8.  Pacing: every pause lasts the configured delay; there has been     *)
(* exactly one pause per ticker whose processing finished, whatever its    *)
(* outcome and however many extractor calls it made, the pause of the      *)
(* ticker being finished still to come; so while ticker i is being fetched *)
(* exactly i-1 pauses have been made, and a completed run made N.          *)
(***************************************************************************)
C8_Pacing ==
    /\ \A k \in 1..Len(sleeps) : sleeps[k] = SLEEP_BETWEEN_REQUESTS
    /\ Len(sleeps) = Cardinality(Processed) - (IF pc = "sleep" THEN 1 ELSE 0)
    /\ (Fetching \/ requests > 0) =>
          /\ Len(sleeps) >= i - 1
          /\ Processed \ {i} = 1..(i - 1)
    /\ pc = "done" => Len(sleeps) = N

\* The second ticker is about to be fetched after a first that failed on its
\* first call.
C8_Witness ==
    /\ pc = "market"
    /\ i = 2
    /\ outcome[1] = "Failed"
    /\ rows = <<>>
    /\ sleeps = <<SLEEP_BETWEEN_REQUESTS>>

(***************************************************************************)
(* C9.  Snapshot order and uniqueness: the buffer holds one one-row record *)
(* per Succeeded ticker and no other, in the order of the input list; the  *)
(* written snapshot has the same rows in the same order.                   *)
(***************************************************************************)
SucceededInOrder == SelectSeq(TICKER_LIST, LAMBDA x : \E k \in Succeeded : TICKER_LIST[k] = x)

C9_SnapshotOrder ==
    /\ Len(rows) = Len(SucceededInOrder)
    /\ \A r \in 1..Len(rows) :
          /\ Len(rows[r].data) = 1
          /\ Field(rows[r], "ticker") = Str(SucceededInOrder[r])
    /\ \A a, b \in 1..Len(rows) : a # b => Field(rows[a], "ticker") # Field(rows[b], "ticker")
    /\ csv # <<>> =>
          /\ Len(csv[1].data) = Len(rows)
          /\ \A r \in 1..Len(rows) :
                csv[1].data[r][ColPos(csv[1].columns, "ticker")] = Str(SucceededInOrder[r])

\* Two tickers, not in alphabetical order, both written.
C9_Witness ==
    /\ pc = "done"
    /\ TICKER_LIST = <<"CCC", "AAA">>
    /\ Len(rows) = 2
    /\ Len(csv) = 1
    /\ Field(rows[1], "ticker") = Str("CCC")

(***************************************************************************)
(* C10.  The market fragment is always a present one-row fragment, so a    *)
(* ticker whose four calls returned is Succeeded with exactly one row,     *)
(* the no-record outcome never happens, and after a completed run rows     *)
(* plus logged failures equals the number of tickers.                      *)
(***************************************************************************)
C10_OneRowOrOneFailure ==
    /\ Len(frags) >= 1 => ~IsEmpty(frags[1]) /\ Len(frags[1].data) = 1
    /\ \A k \in 1..N : outcome[k] # "NoRecord"
    /\ Merged => outcome[i] = "Succeeded" /\ Field(Record, "ticker") = Str(t)
    /\ Len(rows) = Cardinality(Succeeded)
    /\ Len(log) = Cardinality(Failed)
    /\ pc = "done" => Len(rows) + Len(log) = N

\* All three statements absent: the record is the market fragment alone.
C10_Witness ==
    /\ Merged
    /\ \A k \in 2..4 : NoStatement(resp[k])
    /\ outcome[i] = "Succeeded"
    /\ Range(Record.columns) = MarketFields

====
